---- MODULE Spec2Model ----
(***************************************************************************)
(* pydecensooru (src/pydecensooru/main.py): the local mirror of the        *)
(* decensooru id:md5.ext batches, its once-a-day refresh, the lookup of a  *)
(* post id in the mirrored batch files and the decensoring of post info    *)
(* dicts.  Text (file contents, batch names, date tokens, URLs) is kept as *)
(* strings and handled character by character, as the Python code does.    *)
(***************************************************************************)
EXTENDS Integers, Sequences, FiniteSets, TLC

(***************************************************************************)
(* Bounds of the model.                                                    *)
(***************************************************************************)
\* decensor_iter traversals started over the whole run
MaxRuns == 2
\* posts a traversal pulls from its iterable
MaxPosts == 1
\* interrupted batch writes over the whole run
MaxCrashes == 1
\* records the upstream publisher puts in one batch before opening the next
BatchSize == 2
\* records already published upstream when the program is first used
InitPublished == 3
\* number the upstream publisher gave its oldest batch
FirstBatch == 9


(***************************************************************************)
(* Python's str and list operations, as the code uses them.  A str is the  *)
(* sequence of the code points of its characters (ord() of each), so that  *)
(* every character Python can hold has a value here; "" is <<>>.           *)
(***************************************************************************)
\* the characters 32 to 95 and 97 to 126, in the order of their code points
AsciiLow == " !\"#$%&'()*+,-./0123456789:;<=>?@ABCDEFGHIJKLMNOPQRSTUVWXYZ[\\]^_"
AsciiHigh == "abcdefghijklmnopqrstuvwxyz{|}~"

\* ord() of the characters a literal can hold
OrdTable ==
    [c \in {SubSeq(AsciiLow, i, i) : i \in 1..Len(AsciiLow)}
             \cup {SubSeq(AsciiHigh, i, i) : i \in 1..Len(AsciiHigh)}
             \cup {"\t", "\n", "\f", "\r"} |->
        CASE c = "\t" -> 9
          [] c = "\n" -> 10
          [] c = "\f" -> 12
          [] c = "\r" -> 13
          [] \E i \in 1..Len(AsciiLow) : SubSeq(AsciiLow, i, i) = c ->
                31 + (CHOOSE i \in 1..Len(AsciiLow) : SubSeq(AsciiLow, i, i) = c)
          [] OTHER ->
                96 + (CHOOSE i \in 1..Len(AsciiHigh) : SubSeq(AsciiHigh, i, i) = c)]

\* ord(c) of a character written as a one-character literal
Ord(c) == OrdTable[c]

\* the str a literal denotes
Text(lit) == [i \in 1..Len(lit) |-> Ord(SubSeq(lit, i, i))]

LF    == Ord("\n")
CR    == Ord("\r")
Colon == Ord(":")
Dot   == Ord(".")
Slash == Ord("/")

Char(s, i) == s[i]

\* s[:n]
Prefix(s, n) == IF n >= Len(s) THEN s ELSE SubSeq(s, 1, n)

\* s[a:b] with 0-based a, b (clipped to the string, as Python slices are)
Slice(s, a, b) ==
    LET hi == IF b > Len(s) THEN Len(s) ELSE b
    IN  IF a >= hi THEN <<>> ELSE SubSeq(s, a + 1, hi)

\* str.isspace() of one character, as str.strip() and str.rstrip() test it:
\* \t \n \v \f \r, \x1c to \x1f, space, \x85, \xa0, U+1680, U+2000 to U+200A,
\* U+2028, U+2029, U+202F, U+205F and U+3000
IsSpace(c) ==
    \/ c \in 9..13
    \/ c \in 28..32
    \/ c \in {133, 160, 5760}
    \/ c \in 8192..8202
    \/ c \in {8232, 8233, 8239, 8287, 12288}

RECURSIVE RStrip(_)
\* str.rstrip(): trailing whitespace removed
RStrip(s) ==
    IF Len(s) > 0 /\ IsSpace(Char(s, Len(s)))
    THEN RStrip(SubSeq(s, 1, Len(s) - 1))
    ELSE s

RECURSIVE LStrip(_)
LStrip(s) ==
    IF Len(s) > 0 /\ IsSpace(Char(s, 1))
    THEN LStrip(SubSeq(s, 2, Len(s)))
    ELSE s

\* str.strip()
Strip(s) == LStrip(RStrip(s))

RECURSIVE RStripChar(_, _)
\* str.rstrip(c) for a single character c
RStripChar(s, c) ==
    IF Len(s) > 0 /\ Char(s, Len(s)) = c
    THEN RStripChar(SubSeq(s, 1, Len(s) - 1), c)
    ELSE s

\* s[a-1:b] with 1-based, inclusive a and b; "" when there is nothing between
Sub(s, a, b) == IF a > b THEN <<>> ELSE SubSeq(s, a, b)

\* where character c stands in s
Positions(s, c) == {j \in 1..Len(s) : Char(s, j) = c}

\* the k-th smallest of a set of positions
Nth(pos, k) == CHOOSE j \in pos : Cardinality({i \in pos : i < j}) = k - 1

\* str.split(sep) for a single character sep: every occurrence splits
Split(s, sep) ==
    LET pos == Positions(s, sep)
        n   == Cardinality(pos)
    IN  [k \in 1..(n + 1) |->
            Sub(s, IF k = 1 THEN 1 ELSE Nth(pos, k - 1) + 1,
                   IF k = n + 1 THEN Len(s) ELSE Nth(pos, k) - 1)]

\* what a file opened in text mode (open(batch, "r"), Path.read_text()) gives
\* of its content: "\r\n" and a "\r" alone are read as "\n"
UniversalNewlines(s) ==
    IF Positions(s, CR) = {} THEN s
    ELSE LET keep == {j \in 1..Len(s) :
                         ~(Char(s, j) = LF /\ j > 1 /\ Char(s, j - 1) = CR)}
         IN  [k \in 1..Cardinality(keep) |->
                 LET c == Char(s, Nth(keep, k))
                 IN  IF c = CR THEN LF ELSE c]

\* iterating a file opened with open(batch, "r"): its lines, each with its line
\* end kept; "\r\n" and a "\r" alone end a line too and are read as "\n"
FileLines(s) ==
    LET t    == UniversalNewlines(s)
        ends == Positions(t, LF)
        n    == Cardinality(ends)
        m    == IF n > 0 /\ Nth(ends, n) = Len(t) THEN n
                ELSE IF Len(t) = 0 THEN 0 ELSE n + 1
    IN  [k \in 1..m |->
            Sub(t, IF k = 1 THEN 1 ELSE Nth(ends, k - 1) + 1,
                   IF k = n + 1 THEN Len(t) ELSE Nth(ends, k))]

\* the value of a decimal digit
DigitVal(c) == CASE c \in 48..57 -> c - 48

RECURSIVE StrToInt(_)
\* int(s) of a string of decimal digits
StrToInt(s) ==
    IF Len(s) = 0 THEN 0
    ELSE 10 * StrToInt(SubSeq(s, 1, Len(s) - 1)) + DigitVal(Char(s, Len(s)))

RECURSIVE IntToStr(_)
\* str(n): the decimal digits of n, after "-" when n is negative
IntToStr(n) ==
    IF n < 0 THEN <<Ord("-")>> \o IntToStr(0 - n)
    ELSE IF n < 10 THEN <<Ord("0") + n>>
    ELSE IntToStr(n \div 10) \o <<Ord("0") + (n % 10)>>


(***************************************************************************)
(* Program constants.                                                      *)
(***************************************************************************)
DEFAULT_SITE == Text("https://danbooru.donmai.us")
BATCHES_API_URL ==
    Text("https://api.github.com/repos/friendlyanon/decensooru/contents/batches?ref=master")
\* fill_missing_info: ids above this are served from the site itself
NewLayoutId == 2800000
\* fill_missing_info: ids above this are on raikou2, the others on raikou1
Raikou2Id == 850000
\* fill_missing_info: narrower images have no separate sample
SampleWidth == 850

Last(seq) == seq[Len(seq)]

(***************************************************************************)
(* The upstream dataset.  The publisher appends records to its newest      *)
(* batch and opens a new batch when that one is full; `published` records  *)
(* of Master are out at any time.                                          *)
(***************************************************************************)
\* The program takes the text between ':' and '.' as it stands and reads only
\* its first four characters (lines 51 and 57), so the records carry a short
\* hexadecimal text in the place of the 32 digits of an md5.
Master ==
    << Text("500000:0a1b2c.jpg"),
       Text("850001:11aa22.png"),
       Text("2800001:fedcba.zip"),
       Text("850000:9f8e7d.gif"),
       Text("2800000:001122.png") >>

NumBatches(pub) == (pub + BatchSize - 1) \div BatchSize

BatchName(i) == IntToStr(FirstBatch + i - 1)

RECURSIVE JoinLines(_, _, _)
JoinLines(recs, lo, hi) ==
    IF lo > hi THEN <<>>
    ELSE IF lo = hi THEN recs[lo]
    ELSE recs[lo] \o Text("\n") \o JoinLines(recs, lo + 1, hi)

\* the text of upstream batch i: one record a line, no line end after the last
BatchText(i, pub) ==
    LET lo == (i - 1) * BatchSize + 1
        hi == IF i * BatchSize < pub THEN i * BatchSize ELSE pub
    IN  JoinLines(Master, lo, hi)

RawUrl(name) == Text("https://raw.githubusercontent.com/friendlyanon/decensooru/master/batches/") \o name

\* GET BATCHES_API_URL: the entries of the batches directory, a subdirectory
\* among them, in no useful order
Listing(pub) ==
    << [name |-> Text("archive"), type |-> Text("dir"), download_url |-> <<>>] >> \o
    [k \in 1..NumBatches(pub) |->
        LET i == NumBatches(pub) + 1 - k
        IN  [name |-> BatchName(i), type |-> Text("file"),
             download_url |-> RawUrl(BatchName(i))]]

\* GET of a download_url: the text of the batch it names
Download(url, pub) ==
    LET i == CHOOSE j \in 1..NumBatches(pub) : RawUrl(BatchName(j)) = url
    IN  BatchText(i, pub)

(***************************************************************************)
(* The UTC calendar dates the program is run on.                           *)
(***************************************************************************)
Dates ==
    { [y |-> 2018, m |-> 1, d |-> 11],
      [y |-> 2018, m |-> 1, d |-> 12],
      [y |-> 2018, m |-> 11, d |-> 1] }

DateBefore(a, b) ==
    \/ a.y < b.y
    \/ a.y = b.y /\ a.m < b.m
    \/ a.y = b.y /\ a.m = b.m /\ a.d < b.d

\* f"{date.year}{date.month}{date.day}"
DateToken(dt) == IntToStr(dt.y) \o IntToStr(dt.m) \o IntToStr(dt.d)

(***************************************************************************)
(* The posts callers pass in.                                              *)
(***************************************************************************)
RecordId(rec) == StrToInt(Split(rec, Colon)[1])

\* ids no record carries; the text of 85000 is a proper prefix of published ids
UnknownIds == {85000}

PostIds == {RecordId(Master[i]) : i \in 1..Len(Master)} \cup UnknownIds

CensoredPosts ==
    { [id |-> i, image_width |-> w, rating |-> Text("s")] :
        i \in PostIds, w \in {SampleWidth - 1, SampleWidth} }

ClearPosts ==
    { [id |-> 500000, image_width |-> 1000, rating |-> Text("s"),
       md5 |-> Text("ffffffffffffffffffffffffffffffff"), file_ext |-> Text("jpg"),
       file_url |-> Text("https://danbooru.donmai.us/data/ffffffffffffffffffffffffffffffff.jpg")] }

\* a censored post that comes with its file_ext
ExtPosts == { [id |-> 850001, image_width |-> 850, rating |-> Text("s"), file_ext |-> Text("png")] }

Posts == CensoredPosts \cup ExtPosts \cup ClearPosts

\* the posts passed in while the mirror is followed through failures and dates:
\* a published id, an unknown id, a post that has its md5
CorePosts ==
    { post \in CensoredPosts :
        post.image_width = SampleWidth /\ post.id \in {500000} \cup UnknownIds }
    \cup ClearPosts

Sites == {DEFAULT_SITE, DEFAULT_SITE \o Text("/")}


(***************************************************************************)
(* update_batches: the pure parts.                                         *)
(***************************************************************************)
\* {i["name"]: i["download_url"] for i in batches_data if i["type"] == "file"}
BatchesUrl(listing) ==
    LET fileIdx == {k \in 1..Len(listing) : listing[k].type = Text("file")}
        names   == {listing[k].name : k \in fileIdx}
    IN  [n \in names |->
            listing[CHOOSE k \in fileIdx :
                        /\ listing[k].name = n
                        /\ \A j \in fileIdx : listing[j].name = n => j <= k].download_url]

\* the keys of batches_url in the order a dict keeps them: each name where the
\* listing has it first
BatchesKeys(listing) ==
    LET fileIdx == {k \in 1..Len(listing) : listing[k].type = Text("file")}
        firsts  == {k \in fileIdx :
                       \A j \in fileIdx : j < k => listing[j].name # listing[k].name}
    IN  [i \in 1..Cardinality(firsts) |-> listing[Nth(firsts, i)].name]

\* sorted(names, key=...): ascending by key, names of equal key in the order
\* they came in
SortedBy(names, key) ==
    LET rank(j) == 1 + Cardinality({k \in 1..Len(names) :
                          \/ key[names[k]] < key[names[j]]
                          \/ key[names[k]] = key[names[j]] /\ k < j})
    IN  [i \in 1..Len(names) |-> names[CHOOSE j \in 1..Len(names) : rank(j) = i]]

\* the rank of a name of at most three digits in the order of its text
LexKey(s) ==
    LET d(i) == IF i <= Len(s) THEN DigitVal(Char(s, i)) + 1 ELSE 0
    IN  d(1) * 121 + d(2) * 11 + d(3)

\* OrderBatches without key=int: sorted(batches_url), by text
OrderBatchesLex(names) ==
    SortedBy(names, [n \in {names[i] : i \in 1..Len(names)} |-> LexKey(n)])

\* sorted(batches_url, key=int)
OrderBatches(names) ==
    SortedBy(names, [n \in {names[i] : i \in 1..Len(names)} |-> StrToInt(n)])

\* the loop's test, negated: the batch is downloaded
NeedsFetch(name, existing, order) ==
    ~(name \in existing /\ name # Last(order))

(***************************************************************************)
(* find_censored_md5ext: the scan of one batch file.                       *)
(***************************************************************************)
RECURSIVE ScanLinesPrefix(_, _, _)
\* ScanLines with the ids compared by line.startswith(post_id)
ScanLinesPrefix(lines, k, postId) ==
    IF k > Len(lines) THEN [kind |-> "miss", val |-> <<>>]
    ELSE LET parts == Split(lines[k], Colon)
         IN  IF Len(parts) # 2 THEN [kind |-> "error", val |-> <<>>]
             ELSE IF postId = Prefix(parts[1], Len(postId))
                  THEN [kind |-> "found", val |-> Split(RStrip(parts[2]), Dot)]
                  ELSE ScanLinesPrefix(lines, k + 1, postId)

RECURSIVE ScanLinesNoStrip(_, _, _)
\* ScanLines without the rstrip(): the line end stays on the extension
ScanLinesNoStrip(lines, k, postId) ==
    IF k > Len(lines) THEN [kind |-> "miss", val |-> <<>>]
    ELSE LET parts == Split(lines[k], Colon)
         IN  IF Len(parts) # 2 THEN [kind |-> "error", val |-> <<>>]
             ELSE IF postId = parts[1]
                  THEN [kind |-> "found", val |-> Split(parts[2], Dot)]
                  ELSE ScanLinesNoStrip(lines, k + 1, postId)

RECURSIVE ScanLines(_, _, _)
\* the lines of a file from line k on: the first line whose id text is postId
\* ends the scan ("found"); a line that does not split in two at ":" raises
\* ValueError ("error"); "miss" when the lines run out
ScanLines(lines, k, postId) ==
    IF k > Len(lines) THEN [kind |-> "miss", val |-> <<>>]
    ELSE LET parts == Split(lines[k], Colon)
         IN  IF Len(parts) # 2 THEN [kind |-> "error", val |-> <<>>]
             ELSE IF postId = parts[1]
                  THEN [kind |-> "found", val |-> Split(RStrip(parts[2]), Dot)]
                  ELSE ScanLines(lines, k + 1, postId)

ScanFileText(text, postId) == ScanLines(FileLines(text), 1, postId)

(***************************************************************************)
(* fill_missing_info: the record it returns for a resolved post.           *)
(***************************************************************************)
\* SampleExt with the sample named after the file
SampleExtOfFile(ext) == IF ext # Text("zip") THEN ext ELSE Text("webm")

\* "jpg" if ext != "zip" else "webm"
SampleExt(ext) == IF ext # Text("zip") THEN Text("jpg") ELSE Text("webm")

\* FileUrl with the two boundary ids counted in the upper ranges
FileUrlFromBoundary(id, md5, ext, site) ==
    IF id >= NewLayoutId
    THEN RStripChar(site, Slash) \o Text("/data/") \o md5 \o Text(".") \o ext
    ELSE LET server == IF id >= Raikou2Id THEN Text("raikou2") ELSE Text("raikou1")
             base   == Text("https://") \o server \o Text(".donmai.us")
         IN  base \o Text("/") \o Slice(md5, 0, 2) \o Text("/") \o Slice(md5, 2, 4) \o Text("/")
                  \o md5 \o Text(".") \o ext

FileUrl(id, md5, ext, site) ==
    IF id > NewLayoutId
    THEN RStripChar(site, Slash) \o Text("/data/") \o md5 \o Text(".") \o ext
    ELSE LET server == IF id > Raikou2Id THEN Text("raikou2") ELSE Text("raikou1")
             base   == Text("https://") \o server \o Text(".donmai.us")
         IN  base \o Text("/") \o Slice(md5, 0, 2) \o Text("/") \o Slice(md5, 2, 4) \o Text("/")
                  \o md5 \o Text(".") \o ext

SampleUrl(id, md5, ext, site) ==
    IF id > NewLayoutId
    THEN RStripChar(site, Slash) \o Text("/data/sample/sample-") \o md5 \o Text(".") \o SampleExt(ext)
    ELSE LET server == IF id > Raikou2Id THEN Text("raikou2") ELSE Text("raikou1")
             base   == Text("https://") \o server \o Text(".donmai.us")
         IN  base \o Text("/sample/") \o Slice(md5, 0, 2) \o Text("/") \o Slice(md5, 2, 4)
                  \o Text("/sample-") \o md5 \o Text(".") \o SampleExt(ext)

\* LargeFileUrl with an image 850 wide counted as narrow
LargeFileUrlUpTo(info, md5, ext, site) ==
    IF info.image_width <= SampleWidth
    THEN FileUrl(info.id, md5, ext, site)
    ELSE SampleUrl(info.id, md5, ext, site)

LargeFileUrl(info, md5, ext, site) ==
    IF info.image_width < SampleWidth
    THEN FileUrl(info.id, md5, ext, site)
    ELSE SampleUrl(info.id, md5, ext, site)

PreviewUrl(md5) ==
    Text("https://raikou4.donmai.us/preview/") \o Slice(md5, 0, 2) \o Text("/")
        \o Slice(md5, 2, 4) \o Text("/") \o md5 \o Text(".jpg")

\* {**info, **{...}}
FilledInfo(info, md5, ext, site) ==
    [ file_ext         |-> ext,
      md5              |-> md5,
      file_url         |-> FileUrl(info.id, md5, ext, site),
      large_file_url   |-> LargeFileUrl(info, md5, ext, site),
      preview_file_url |-> PreviewUrl(md5) ] @@ info


(***************************************************************************)
(* AtomicFile(BATCHES_DIR / name, "w"): the text goes to a temporary file  *)
(* made beside the target, in BATCHES_DIR, which is renamed over the       *)
(* target when the with block ends without an exception.                   *)
(***************************************************************************)
TempName(name, k) == Text(".") \o name \o Text("-") \o IntToStr(k)

\* mkstemp: a name no file of the directory has
FreshTemp(name, fs) ==
    TempName(name, CHOOSE k \in 1..(Cardinality(DOMAIN fs) + 1) :
                      /\ TempName(name, k) \notin DOMAIN fs
                      /\ \A j \in 1..(k - 1) : TempName(name, j) \in DOMAIN fs)

\* what an interrupted write may have put in the temporary file: any part of
\* the text from its start, short of the whole
PartialWrites(text) == { Prefix(text, k) : k \in 0..(Len(text) - 1) }

\* the directory with one file removed
RemoveFile(fs, name) == [n \in DOMAIN fs \ {name} |-> fs[n]]

\* os.rename(tmp, name)
RenameFile(fs, tmp, name) ==
    [n \in (DOMAIN fs \ {tmp}) \cup {name} |-> IF n = name THEN fs[tmp] ELSE fs[n]]

(***************************************************************************)
(* State.                                                                  *)
(***************************************************************************)
VARIABLES
    today,      \* the UTC date datetime.utcnow() gives
    published,  \* records of Master the upstream repository holds
    lastPull,   \* LAST_PULL_DATE_FILE: <<>> when absent, else <<its text, the
                \* date it was written on>>
    dirExists,  \* BATCHES_DIR exists
    files,      \* BATCHES_DIR: file name -> text
    pc,         \* each process's position
    loc,        \* each process's local variables
    obs,        \* each process's traversal as its caller sees it, and a record
                \* of the refresh in progress
    runs,       \* decensor_iter traversals started
    crashes,    \* batch writes interrupted
    day,        \* the lookups that read today's date from the clock, and whether
                \* one of them sent a listing request
    unfinalised \* the AtomicFile objects an exception left open and that are
                \* not yet finalised: <<process, temporary file>>

vars ==
    <<today, published, lastPull, dirExists, files, pc, loc, obs, runs, crashes, day,
      unfinalised>>

\* the processes that use the mirror
Procs == {1}

NoInfo == <<>>
NoResult == [kind |-> "unset", val |-> <<>>]

EmptyFrame ==
    [ left     |-> 0,        \* posts the iterable still holds
      site     |-> <<>>,       \* site_url
      info     |-> NoInfo,   \* the post being decensored
      clock    |-> <<>>,     \* datetime.utcnow() as line 88 read it
      date     |-> <<>>,       \* its token
      urls     |-> <<>>,     \* batches_url
      order    |-> <<>>,     \* order_batches
      existing |-> {},       \* existing
      idx      |-> 0,        \* position of the for loop in order_batches
      answer   |-> <<>>,       \* answer.text
      tmp      |-> <<>>,       \* the AtomicFile's temporary file
      toScan   |-> {},       \* files BATCHES_DIR.iterdir() has yet to give
      result   |-> NoResult, \* what find_censored_md5ext returned
      exc      |-> "none" ]  \* the exception in flight

\* pub, remote: the records and the batches the upstream repository held when
\* the refresh listed it; pre: the batch directory as the refresh found it
NoRefresh ==
    [ pub |-> 0, remote |-> {}, pre |-> <<>>, requested |-> {}, skipped |-> {},
      badStatus |-> {}, done |-> FALSE ]

EmptyObs ==
    [ status  |-> "idle",   \* idle, running, returned, raised
      yields  |-> 0,        \* posts yielded by this traversal
      lastIn  |-> NoInfo,   \* the last post pulled from the iterable
      lastOut |-> NoInfo,   \* what was yielded for it
      error   |-> "none",   \* the exception the traversal raised
      refresh |-> NoRefresh ]

\* find: lookups that read this date from the clock (counted up to three);
\* listed: one of them sent a listing request
NoDay == [find |-> 0, listed |-> FALSE]

Init ==
    /\ today = [y |-> 2018, m |-> 1, d |-> 11]
    /\ published = InitPublished
    /\ lastPull = <<>>
    /\ dirExists = FALSE
    /\ files = <<>>
    /\ pc = [p \in Procs |-> "idle"]
    /\ loc = [p \in Procs |-> EmptyFrame]
    /\ obs = [p \in Procs |-> EmptyObs]
    /\ runs = 0
    /\ crashes = 0
    /\ day = NoDay
    /\ unfinalised = {}

(***************************************************************************)
(* The environment: the clock and the upstream publisher.                  *)
(***************************************************************************)
\* The UTC date changes, at any moment: a lookup reads the clock once (line
\* 88) and may still be waiting for the network when the date is another.
Midnight ==
    /\ \E dt \in Dates : DateBefore(today, dt) /\ today' = dt
    /\ day' = NoDay
    /\ UNCHANGED <<published, lastPull, dirExists, files, pc, loc, obs, runs, crashes, unfinalised>>

\* The publisher adds a record: to its newest batch, or to a new one.  It
\* pushes at any moment, also between the requests of one refresh.
Publish ==
    /\ published < Len(Master)
    /\ published' = published + 1
    /\ UNCHANGED <<today, lastPull, dirExists, files, pc, loc, obs, runs, crashes, day, unfinalised>>


(***************************************************************************)
(* decensor_iter and decensor.                                             *)
(***************************************************************************)
\* the frame a traversal keeps between two posts
BetweenPosts(f) == [EmptyFrame EXCEPT !.left = f.left, !.site = f.site]

\* yield: the caller receives out for the post it passed in
Yielded(p, in, out) ==
    [obs EXCEPT ![p].yields = @ + 1, ![p].lastIn = in, ![p].lastOut = out,
                ![p].refresh = NoRefresh]

\* an exception leaves find_censored_md5ext
Raise(p, kind) ==
    /\ pc' = [pc EXCEPT ![p] = "except"]
    /\ loc' = [loc EXCEPT ![p].exc = kind]

\* A caller starts traversing decensor_iter(posts_info, site_url)
StartAt(p, sites) ==
    /\ pc[p] = "idle"
    /\ runs < MaxRuns
    /\ runs' = runs + 1
    /\ \E site \in sites, n \in 1..MaxPosts :
          loc' = [loc EXCEPT ![p] = [EmptyFrame EXCEPT !.left = n, !.site = site]]
    /\ obs' = [obs EXCEPT ![p] = [EmptyObs EXCEPT !.status = "running"]]
    /\ pc' = [pc EXCEPT ![p] = "iter"]
    /\ UNCHANGED <<today, published, lastPull, dirExists, files, crashes, day, unfinalised>>

Start(p) == StartAt(p, {DEFAULT_SITE})

\* the iterable is exhausted: the generator returns
IterDone(p) ==
    /\ pc[p] = "iter"
    /\ loc[p].left = 0
    /\ pc' = [pc EXCEPT ![p] = "idle"]
    /\ loc' = [loc EXCEPT ![p] = EmptyFrame]
    /\ obs' = [obs EXCEPT ![p] = [EmptyObs EXCEPT !.status = "returned", !.yields = obs[p].yields]]
    /\ UNCHANGED <<today, published, lastPull, dirExists, files, runs, crashes, day, unfinalised>>

\* decensor on a post that has "md5": the post itself is yielded
DecensorClearOf(p, pool) ==
    /\ pc[p] = "iter"
    /\ loc[p].left > 0
    /\ \E post \in pool :
          /\ "md5" \in DOMAIN post
          /\ obs' = Yielded(p, post, post)
    /\ loc' = [loc EXCEPT ![p].left = @ - 1]
    /\ UNCHANGED <<today, published, lastPull, dirExists, files, pc, runs, crashes, day, unfinalised>>

\* DecensorClear without the "md5" test: the post goes to fill_missing_info
DecensorClearFills(p) ==
    /\ pc[p] = "iter"
    /\ loc[p].left > 0
    /\ \E post \in CorePosts :
          /\ "md5" \in DOMAIN post
          /\ loc' = [loc EXCEPT ![p].left = @ - 1, ![p].info = post]
          /\ obs' = [obs EXCEPT ![p].lastIn = post, ![p].lastOut = NoInfo]
    /\ pc' = [pc EXCEPT ![p] = "find"]
    /\ UNCHANGED <<today, published, lastPull, dirExists, files, runs, crashes, day, unfinalised>>

DecensorClear(p) == DecensorClearOf(p, CorePosts)

\* decensor on a post without "md5": fill_missing_info calls find_censored_md5ext
DecensorCensoredOf(p, pool) ==
    /\ pc[p] = "iter"
    /\ loc[p].left > 0
    /\ \E post \in pool :
          /\ "md5" \notin DOMAIN post
          /\ loc' = [loc EXCEPT ![p].left = @ - 1, ![p].info = post]
          /\ obs' = [obs EXCEPT ![p].lastIn = post, ![p].lastOut = NoInfo]
    /\ pc' = [pc EXCEPT ![p] = "find"]
    /\ UNCHANGED <<today, published, lastPull, dirExists, files, runs, crashes, day, unfinalised>>

DecensorCensored(p) == DecensorCensoredOf(p, CorePosts)

(***************************************************************************)
(* find_censored_md5ext: the freshness check.                              *)
(***************************************************************************)
\* LAST_PULL_DATE_FILE.read_text().strip(), "" when the file is absent
LastPullDate(lp) == IF lp = <<>> THEN <<>> ELSE Strip(UniversalNewlines(lp[1]))

\* IsStale with the comparison lost: every lookup refreshes
IsStaleAlways(lp, dt) == TRUE

\* last_pull_date != date
IsStale(lp, dt) == LastPullDate(lp) # DateToken(dt)

ReadDate(p) ==
    /\ pc[p] = "find"
    /\ loc' = [loc EXCEPT ![p].clock = today, ![p].date = DateToken(today)]
    /\ pc' = [pc EXCEPT ![p] = IF IsStale(lastPull, today) THEN "list" ELSE "iterdir"]
    /\ day' = [day EXCEPT !.find = IF @ < 3 THEN @ + 1 ELSE @]
    /\ UNCHANGED <<today, published, lastPull, dirExists, files, obs, runs, crashes, unfinalised>>

\* update_batches returned: LAST_PULL_DATE_FILE.write_text(date) opens the file
\* for writing, which makes it or empties it
OpenDate(p) ==
    /\ pc[p] = "writedate"
    /\ lastPull' = << <<>>, today >>
    /\ pc' = [pc EXCEPT ![p] = "dateopen"]
    /\ UNCHANGED <<today, published, dirExists, files, loc, obs, runs, crashes, day, unfinalised>>

\* write_text writes the date and closes the file
WriteDate(p) ==
    /\ pc[p] = "dateopen"
    /\ lastPull' = <<loc[p].date, today>>
    /\ loc' = [loc EXCEPT ![p] = [BetweenPosts(@) EXCEPT !.info = loc[p].info,
                                                         !.date = loc[p].date]]
    /\ pc' = [pc EXCEPT ![p] = "iterdir"]
    /\ UNCHANGED <<today, published, dirExists, files, obs, runs, crashes, day, unfinalised>>

(***************************************************************************)
(* update_batches.                                                         *)
(***************************************************************************)
\* what the listing request can raise: requests.get a ConnectionError, .json()
\* a JSONDecodeError, and i["type"] a TypeError when the JSON is an error object
ListErrors == {"ConnectionError", "JSONDecodeError", "TypeError"}

\* the day's record once p has sent its listing request
SentListing(p) == IF loc[p].clock = today THEN [day EXCEPT !.listed = TRUE] ELSE day

ListOk(p) ==
    /\ pc[p] = "list"
    /\ LET urls == BatchesUrl(Listing(published))
       IN  loc' = [loc EXCEPT ![p].urls = urls,
                              ![p].order = OrderBatches(BatchesKeys(Listing(published)))]
    /\ pc' = [pc EXCEPT ![p] = "listdir"]
    /\ obs' = [obs EXCEPT ![p].refresh =
                  [NoRefresh EXCEPT !.pub = published,
                                    !.remote = {BatchName(i) : i \in 1..NumBatches(published)}]]
    /\ day' = SentListing(p)
    /\ UNCHANGED <<today, published, lastPull, dirExists, files, runs, crashes, unfinalised>>

\* ListFails with the date written although the listing failed
ListFailsMarksDay(p) ==
    /\ pc[p] = "list"
    /\ \E kind \in ListErrors : Raise(p, kind)
    /\ lastPull' = <<loc[p].date, today>>
    /\ day' = SentListing(p)
    /\ UNCHANGED <<today, published, dirExists, files, obs, runs, crashes, unfinalised>>

ListFails(p) ==
    /\ pc[p] = "list"
    /\ \E kind \in ListErrors : Raise(p, kind)
    /\ day' = SentListing(p)
    /\ UNCHANGED <<today, published, lastPull, dirExists, files, obs, runs, crashes, unfinalised>>

\* existing = set(os.listdir(BATCHES_DIR))
ListDir(p) ==
    /\ pc[p] = "listdir"
    /\ IF dirExists
       THEN /\ loc' = [loc EXCEPT ![p].existing = DOMAIN files, ![p].idx = 1]
            /\ pc' = [pc EXCEPT ![p] = "loop"]
       ELSE /\ pc' = [pc EXCEPT ![p] = "mkdir"]
            /\ loc' = loc
    /\ obs' = [obs EXCEPT ![p].refresh.pre = files]
    /\ UNCHANGED <<today, published, lastPull, dirExists, files, runs, crashes, day, unfinalised>>

\* except FileNotFoundError: BATCHES_DIR.mkdir(parents=True); existing = set()
MkDir(p) ==
    /\ pc[p] = "mkdir"
    /\ IF dirExists
       THEN /\ Raise(p, "FileExistsError")
            /\ UNCHANGED dirExists
       ELSE /\ dirExists' = TRUE
            /\ loc' = [loc EXCEPT ![p].existing = {}, ![p].idx = 1]
            /\ pc' = [pc EXCEPT ![p] = "loop"]
    /\ UNCHANGED <<today, published, lastPull, files, obs, runs, crashes, day, unfinalised>>

\* the batch the for loop is at
CurrentBatch(f) == f.order[f.idx]

LoopDone(p) ==
    /\ pc[p] = "loop"
    /\ loc[p].idx > Len(loc[p].order)
    /\ pc' = [pc EXCEPT ![p] = "writedate"]
    /\ obs' = [obs EXCEPT ![p].refresh.done = TRUE]
    /\ UNCHANGED <<today, published, lastPull, dirExists, files, loc, runs, crashes, day, unfinalised>>

\* if name in existing and name != order_batches[-1]: continue
SkipBatch(p) ==
    /\ pc[p] = "loop"
    /\ loc[p].idx <= Len(loc[p].order)
    /\ ~NeedsFetch(CurrentBatch(loc[p]), loc[p].existing, loc[p].order)
    /\ loc' = [loc EXCEPT ![p].idx = @ + 1]
    /\ obs' = [obs EXCEPT ![p].refresh.skipped = @ \cup {CurrentBatch(loc[p])}]
    /\ UNCHANGED <<today, published, lastPull, dirExists, files, pc, runs, crashes, day, unfinalised>>

\* requests.get(batches_url[name]) answers with a success status
FetchOk(p) ==
    /\ pc[p] = "loop"
    /\ loc[p].idx <= Len(loc[p].order)
    /\ NeedsFetch(CurrentBatch(loc[p]), loc[p].existing, loc[p].order)
    /\ loc' = [loc EXCEPT ![p].answer =
                  Download(loc[p].urls[CurrentBatch(loc[p])], published)]
    /\ obs' = [obs EXCEPT ![p].refresh.requested = @ \cup {CurrentBatch(loc[p])}]
    /\ pc' = [pc EXCEPT ![p] = "open"]
    /\ UNCHANGED <<today, published, lastPull, dirExists, files, runs, crashes, day, unfinalised>>

\* FetchBadStatus without raise_for_status: the error body is written as the batch
FetchBadStatusWrites(p) ==
    /\ pc[p] = "loop"
    /\ loc[p].idx <= Len(loc[p].order)
    /\ NeedsFetch(CurrentBatch(loc[p]), loc[p].existing, loc[p].order)
    /\ files' = (CurrentBatch(loc[p]) :> Text("404: Not Found")) @@ files
    /\ loc' = [loc EXCEPT ![p].idx = @ + 1]
    /\ obs' = [obs EXCEPT ![p].refresh.requested = @ \cup {CurrentBatch(loc[p])},
                          ![p].refresh.badStatus = @ \cup {CurrentBatch(loc[p])}]
    /\ UNCHANGED <<today, published, lastPull, dirExists, pc, runs, crashes, day, unfinalised>>

\* it answers with another status: raise_for_status raises, the loop continues
FetchBadStatus(p) ==
    /\ pc[p] = "loop"
    /\ loc[p].idx <= Len(loc[p].order)
    /\ NeedsFetch(CurrentBatch(loc[p]), loc[p].existing, loc[p].order)
    /\ loc' = [loc EXCEPT ![p].idx = @ + 1]
    /\ obs' = [obs EXCEPT ![p].refresh.requested = @ \cup {CurrentBatch(loc[p])},
                          ![p].refresh.badStatus = @ \cup {CurrentBatch(loc[p])}]
    /\ UNCHANGED <<today, published, lastPull, dirExists, files, pc, runs, crashes, day, unfinalised>>

\* requests.get itself raises (no connection, a timeout): it is outside the try
FetchConnError(p) ==
    /\ pc[p] = "loop"
    /\ loc[p].idx <= Len(loc[p].order)
    /\ NeedsFetch(CurrentBatch(loc[p]), loc[p].existing, loc[p].order)
    /\ Raise(p, "ConnectionError")
    /\ obs' = [obs EXCEPT ![p].refresh.requested = @ \cup {CurrentBatch(loc[p])}]
    /\ UNCHANGED <<today, published, lastPull, dirExists, files, runs, crashes, day, unfinalised>>

\* AtomicFile(BATCHES_DIR / name, "w"): the temporary file is made
OpenTemp(p) ==
    /\ pc[p] = "open"
    /\ LET tmp == FreshTemp(CurrentBatch(loc[p]), files)
       IN  /\ files' = (tmp :> <<>>) @@ files
           /\ loc' = [loc EXCEPT ![p].tmp = tmp]
    /\ pc' = [pc EXCEPT ![p] = "write"]
    /\ UNCHANGED <<today, published, lastPull, dirExists, obs, runs, crashes, day, unfinalised>>

\* file.write(answer.text)
WriteOk(p) ==
    /\ pc[p] = "write"
    /\ files' = [files EXCEPT ![loc[p].tmp] = loc[p].answer]
    /\ pc' = [pc EXCEPT ![p] = "close"]
    /\ UNCHANGED <<today, published, lastPull, dirExists, loc, obs, runs, crashes, day, unfinalised>>

\* WriteInterrupted on a plain open(BATCHES_DIR / name, "w"): the cut text is
\* in the batch's own file
WriteInterruptedInPlace(p) ==
    /\ pc[p] = "write"
    /\ crashes < MaxCrashes
    /\ crashes' = crashes + 1
    /\ \E part \in PartialWrites(loc[p].answer) :
          files' = (CurrentBatch(loc[p]) :> part) @@ RemoveFile(files, loc[p].tmp)
    /\ Raise(p, "OSError")
    /\ UNCHANGED <<today, published, lastPull, dirExists, obs, runs, day, unfinalised>>

\* the write fails part-way: the with block is left by the exception, nothing is
\* renamed, and the temporary file stays, with what had reached it, as long as
\* the AtomicFile object is not finalised
WriteInterrupted(p) ==
    /\ pc[p] = "write"
    /\ crashes < MaxCrashes
    /\ crashes' = crashes + 1
    /\ \E part \in PartialWrites(loc[p].answer) :
          files' = [files EXCEPT ![loc[p].tmp] = part]
    /\ unfinalised' = unfinalised \cup {<<p, loc[p].tmp>>}
    /\ Raise(p, "OSError")
    /\ UNCHANGED <<today, published, lastPull, dirExists, obs, runs, day>>

\* AtomicFile.__del__, once the exception that held the object has been dropped
\* by the caller of the traversal: discard() unlinks the temporary file.  A
\* process that is killed, or keeps the exception, never gets here.
Discard(p) ==
    /\ pc[p] \in {"idle", "iter"}
    /\ \E tmp \in {u[2] : u \in {v \in unfinalised : v[1] = p}} :
          /\ files' = RemoveFile(files, tmp)
          /\ unfinalised' = unfinalised \ {<<p, tmp>>}
    /\ UNCHANGED <<today, published, lastPull, dirExists, pc, loc, obs, runs, crashes, day>>

\* the with block ends: close() renames the temporary file over the batch
CloseRename(p) ==
    /\ pc[p] = "close"
    /\ files' = RenameFile(files, loc[p].tmp, CurrentBatch(loc[p]))
    /\ loc' = [loc EXCEPT ![p].idx = @ + 1, ![p].tmp = <<>>, ![p].answer = <<>>]
    /\ pc' = [pc EXCEPT ![p] = "loop"]
    /\ UNCHANGED <<today, published, lastPull, dirExists, obs, runs, crashes, day, unfinalised>>


(***************************************************************************)
(* find_censored_md5ext: the scan of BATCHES_DIR.                          *)
(***************************************************************************)
\* str(post_id)
PostIdText(info) == IntToStr(info.id)

\* BATCHES_DIR.iterdir(): every file of the directory, in no promised order
IterDir(p) ==
    /\ pc[p] = "iterdir"
    /\ IF dirExists
       THEN /\ loc' = [loc EXCEPT ![p].toScan = DOMAIN files]
            /\ pc' = [pc EXCEPT ![p] = "scan"]
       ELSE Raise(p, "FileNotFoundError")
    /\ UNCHANGED <<today, published, lastPull, dirExists, files, obs, runs, crashes, day, unfinalised>>

\* the next file holds a line with the post's id: its md5.ext, split, is returned
ScanMatch(p) ==
    /\ pc[p] = "scan"
    /\ \E name \in loc[p].toScan \cap DOMAIN files :
          LET r == ScanFileText(files[name], PostIdText(loc[p].info))
          IN  /\ r.kind = "found"
              /\ loc' = [loc EXCEPT ![p].toScan = {},
                                    ![p].result = [kind |-> "list", val |-> r.val]]
    /\ pc' = [pc EXCEPT ![p] = "fill"]
    /\ UNCHANGED <<today, published, lastPull, dirExists, files, obs, runs, crashes, day, unfinalised>>

\* the next file has no such line
ScanMiss(p) ==
    /\ pc[p] = "scan"
    /\ \E name \in loc[p].toScan \cap DOMAIN files :
          /\ ScanFileText(files[name], PostIdText(loc[p].info)).kind = "miss"
          /\ loc' = [loc EXCEPT ![p].toScan = @ \ {name}]
    /\ UNCHANGED <<today, published, lastPull, dirExists, files, pc, obs, runs, crashes, day, unfinalised>>

\* the next file has, before any such line, a line that does not split in two
ScanMalformed(p) ==
    /\ pc[p] = "scan"
    /\ \E name \in loc[p].toScan \cap DOMAIN files :
          ScanFileText(files[name], PostIdText(loc[p].info)).kind = "error"
    /\ Raise(p, "ValueError")
    /\ UNCHANGED <<today, published, lastPull, dirExists, files, obs, runs, crashes, day, unfinalised>>

\* no file is left: return None
ScanEnd(p) ==
    /\ pc[p] = "scan"
    /\ loc[p].toScan = {}
    /\ loc' = [loc EXCEPT ![p].result = [kind |-> "None", val |-> <<>>]]
    /\ pc' = [pc EXCEPT ![p] = "fill"]
    /\ UNCHANGED <<today, published, lastPull, dirExists, files, obs, runs, crashes, day, unfinalised>>

(***************************************************************************)
(* fill_missing_info, from the return of find_censored_md5ext on.          *)
(***************************************************************************)
\* md5, ext = None raises TypeError, which is caught: return info
FillNotFound(p) ==
    /\ pc[p] = "fill"
    /\ loc[p].result.kind = "None"
    /\ obs' = Yielded(p, loc[p].info, loc[p].info)
    /\ loc' = [loc EXCEPT ![p] = BetweenPosts(@)]
    /\ pc' = [pc EXCEPT ![p] = "iter"]
    /\ UNCHANGED <<today, published, lastPull, dirExists, files, runs, crashes, day, unfinalised>>

\* FillResolved with the fields stored into info itself (info.update) and info
\* returned: the caller's record is the filled record
FillResolvedInPlace(p) ==
    /\ pc[p] = "fill"
    /\ loc[p].result.kind = "list"
    /\ Len(loc[p].result.val) = 2
    /\ LET filled == FilledInfo(loc[p].info, loc[p].result.val[1],
                                loc[p].result.val[2], loc[p].site)
       IN  obs' = Yielded(p, filled, filled)
    /\ loc' = [loc EXCEPT ![p] = BetweenPosts(@)]
    /\ pc' = [pc EXCEPT ![p] = "iter"]
    /\ UNCHANGED <<today, published, lastPull, dirExists, files, runs, crashes, day, unfinalised>>

\* md5, ext = a list of two: the filled record is returned
FillResolved(p) ==
    /\ pc[p] = "fill"
    /\ loc[p].result.kind = "list"
    /\ Len(loc[p].result.val) = 2
    /\ obs' = Yielded(p, loc[p].info,
                      FilledInfo(loc[p].info, loc[p].result.val[1],
                                 loc[p].result.val[2], loc[p].site))
    /\ loc' = [loc EXCEPT ![p] = BetweenPosts(@)]
    /\ pc' = [pc EXCEPT ![p] = "iter"]
    /\ UNCHANGED <<today, published, lastPull, dirExists, files, runs, crashes, day, unfinalised>>

\* the exception leaves decensor_iter: the traversal ends with it
Propagated(p, kind) ==
    /\ pc' = [pc EXCEPT ![p] = "idle"]
    /\ loc' = [loc EXCEPT ![p] = EmptyFrame]
    /\ obs' = [obs EXCEPT ![p].status = "raised", ![p].error = kind,
                          ![p].refresh = NoRefresh]

\* md5, ext = a list of another length raises ValueError, which is not caught
FillUnpackError(p) ==
    /\ pc[p] = "fill"
    /\ loc[p].result.kind = "list"
    /\ Len(loc[p].result.val) # 2
    /\ Propagated(p, "ValueError")
    /\ UNCHANGED <<today, published, lastPull, dirExists, files, runs, crashes, day, unfinalised>>

\* except TypeError: return info
ExceptCaught(p) ==
    /\ pc[p] = "except"
    /\ loc[p].exc = "TypeError"
    /\ obs' = Yielded(p, loc[p].info, loc[p].info)
    /\ loc' = [loc EXCEPT ![p] = BetweenPosts(@)]
    /\ pc' = [pc EXCEPT ![p] = "iter"]
    /\ UNCHANGED <<today, published, lastPull, dirExists, files, runs, crashes, day, unfinalised>>

\* any other exception passes through fill_missing_info, decensor and decensor_iter
ExceptPropagate(p) ==
    /\ pc[p] = "except"
    /\ loc[p].exc # "TypeError"
    /\ Propagated(p, loc[p].exc)
    /\ UNCHANGED <<today, published, lastPull, dirExists, files, runs, crashes, day, unfinalised>>

(***************************************************************************)
(* The specification: one process using the mirror.                        *)
(***************************************************************************)
Next ==
    \/ Midnight
    \/ Publish
    \/ \E p \in Procs :
          \/ Start(p)
          \/ IterDone(p)
          \/ DecensorClear(p)
          \/ DecensorCensored(p)
          \/ ReadDate(p)
          \/ OpenDate(p)
          \/ WriteDate(p)
          \/ ListOk(p)
          \/ ListFails(p)
          \/ ListDir(p)
          \/ MkDir(p)
          \/ LoopDone(p)
          \/ SkipBatch(p)
          \/ FetchOk(p)
          \/ FetchBadStatus(p)
          \/ FetchConnError(p)
          \/ OpenTemp(p)
          \/ WriteOk(p)
          \/ WriteInterrupted(p)
          \/ Discard(p)
          \/ CloseRename(p)
          \/ IterDir(p)
          \/ ScanMatch(p)
          \/ ScanMiss(p)
          \/ ScanMalformed(p)
          \/ ScanEnd(p)
          \/ FillNotFound(p)
          \/ FillResolved(p)
          \/ FillUnpackError(p)
          \/ ExceptCaught(p)
          \/ ExceptPropagate(p)

Spec == Init /\ [][Next]_vars

(***************************************************************************)
(* A second specification: the decensoring of every kind of post, under    *)
(* either form of the site URL, on a mirror whose requests and writes all  *)
(* go through or are answered with a bad status.                           *)
(***************************************************************************)
StartAny(p) == StartAt(p, Sites)

DecensorClearAny(p) == DecensorClearOf(p, Posts)

DecensorCensoredAny(p) == DecensorCensoredOf(p, Posts)

NextDecensor ==
    \/ Midnight
    \/ Publish
    \/ \E p \in Procs :
          \/ StartAny(p)
          \/ IterDone(p)
          \/ DecensorClearAny(p)
          \/ DecensorCensoredAny(p)
          \/ ReadDate(p)
          \/ OpenDate(p)
          \/ WriteDate(p)
          \/ ListOk(p)
          \/ ListDir(p)
          \/ MkDir(p)
          \/ LoopDone(p)
          \/ SkipBatch(p)
          \/ FetchOk(p)
          \/ FetchBadStatus(p)
          \/ OpenTemp(p)
          \/ WriteOk(p)
          \/ CloseRename(p)
          \/ IterDir(p)
          \/ ScanMatch(p)
          \/ ScanMiss(p)
          \/ ScanEnd(p)
          \/ FillNotFound(p)
          \/ FillResolved(p)

SpecDecensor == Init /\ [][NextDecensor]_vars


(***************************************************************************)
(* A third specification: two processes on one mirror.  Every request is   *)
(* answered and every write goes through; the upstream repository and the  *)
(* date stay as they are.                                                  *)
(***************************************************************************)
ConcurrentProcs == {1, 2}

InitConcurrent ==
    /\ today = [y |-> 2018, m |-> 1, d |-> 11]
    /\ published = InitPublished
    /\ lastPull = <<>>
    /\ dirExists = FALSE
    /\ files = <<>>
    /\ pc = [p \in ConcurrentProcs |-> "idle"]
    /\ loc = [p \in ConcurrentProcs |-> EmptyFrame]
    /\ obs = [p \in ConcurrentProcs |-> EmptyObs]
    /\ runs = 0
    /\ crashes = 0
    /\ day = NoDay
    /\ unfinalised = {}

\* file.write(answer.text) under way: a first part of the text has reached the
\* temporary file, where the other process can read it
WriteFlush(p) ==
    /\ pc[p] = "write"
    /\ files[loc[p].tmp] = <<>>
    /\ \E part \in PartialWrites(loc[p].answer) :
          files' = [files EXCEPT ![loc[p].tmp] = part]
    /\ UNCHANGED <<today, published, lastPull, dirExists, pc, loc, obs, runs, crashes, day, unfinalised>>

\* open(batch): a file iterdir() listed is gone, the other process having
\* renamed its temporary file since
ScanVanished(p) ==
    /\ pc[p] = "scan"
    /\ loc[p].toScan \ DOMAIN files # {}
    /\ Raise(p, "FileNotFoundError")
    /\ UNCHANGED <<today, published, lastPull, dirExists, files, obs, runs, crashes, day, unfinalised>>

NextConcurrent ==
    \E p \in ConcurrentProcs :
        \/ Start(p)
        \/ IterDone(p)
        \/ DecensorCensored(p)
        \/ ReadDate(p)
        \/ OpenDate(p)
        \/ WriteDate(p)
        \/ ListOk(p)
        \/ ListDir(p)
        \/ MkDir(p)
        \/ LoopDone(p)
        \/ SkipBatch(p)
        \/ FetchOk(p)
        \/ OpenTemp(p)
        \/ WriteFlush(p)
        \/ WriteOk(p)
        \/ CloseRename(p)
        \/ IterDir(p)
        \/ ScanMatch(p)
        \/ ScanMiss(p)
        \/ ScanMalformed(p)
        \/ ScanVanished(p)
        \/ ScanEnd(p)
        \/ FillNotFound(p)
        \/ FillResolved(p)
        \/ FillUnpackError(p)
        \/ ExceptPropagate(p)

SpecConcurrent == InitConcurrent /\ [][NextConcurrent]_vars


(***************************************************************************)
(* Properties.                                                             *)
(***************************************************************************)
\* the persisted date is today's token
Fresh == LastPullDate(lastPull) = DateToken(today)

\* the positions of update_batches and of the write of the date after it
RefreshPcs ==
    {"list", "listdir", "mkdir", "loop", "open", "write", "close", "writedate", "dateopen"}

\* the file of a directory under a name: <<its text>>, or <<>> when absent
FileAt(fs, n) == IF n \in DOMAIN fs THEN <<fs[n]>> ELSE <<>>

\* C1 (as amended): a lookup that reads a persisted date equal to the token
\* of the date it reads from the clock goes straight to the scan, and only a
\* lookup that read another one enters the refresh (the only part that sends
\* requests); a refresh that completes persists the token its lookup read,
\* which is today's when the date has not changed since; a refresh that raised
\* persisted nothing, the date file changing in no other step than those two
\* of write_text, so the next lookup of that date lists again.
C1_NoNetworkWhenFresh ==
    /\ [](\A p \in Procs :
            pc[p] \in RefreshPcs => LastPullDate(lastPull) # loc[p].date)
    /\ [][\A p \in Procs :
            /\ (pc[p] = "find" /\ pc'[p] # "find" /\ Fresh => pc'[p] = "iterdir")
            /\ (pc[p] \notin RefreshPcs /\ pc'[p] \in RefreshPcs
                  => pc[p] = "find" /\ ~Fresh)
            /\ (pc[p] = "dateopen" /\ pc'[p] # "dateopen"
                  => /\ LastPullDate(lastPull') = loc[p].date
                     /\ (loc[p].clock = today => Fresh'))]_vars
    /\ [][lastPull' # lastPull
            => \E q \in Procs : pc[q] \in {"writedate", "dateopen"}]_vars

\* C1, witness: the second lookup of a date on which a listing was sent is at
\* the scan without having refreshed
C1_Witness ==
    /\ pc[1] = "iterdir"
    /\ day.find = 2
    /\ day.listed
    /\ Fresh
    /\ obs[1].refresh = NoRefresh

\* C1 as stated: of the first two lookups that read a date from the clock, the
\* second sends no listing request on that date when the first sent one
C1_AtMostOneListing ==
    [][\A p \in Procs :
          (/\ pc[p] = "list" /\ pc'[p] # "list"
           /\ loc[p].clock = today
           /\ day.find <= 2) => ~day.listed]_vars

\* the batch whose name is the greatest number
Highest(names) == CHOOSE n \in names : \A o \in names : StrToInt(o) <= StrToInt(n)

\* C2: in a refresh, the batches requested are those absent from the batch
\* directory as the refresh found it or numerically highest among the remote
\* batches its listing was made of, the batches skipped are the others, and a
\* refresh that reaches the end of its loop has requested or skipped every
\* one of those remote batches.
C2_FetchPolicy ==
    \A p \in Procs :
        pc[p] \in {"loop", "open", "write", "close", "writedate"} =>
            LET r == obs[p].refresh
                should(n) == n \notin DOMAIN r.pre \/ n = Highest(r.remote)
            IN  /\ r.requested \cup r.skipped \subseteq r.remote
                /\ \A n \in r.requested : should(n)
                /\ \A n \in r.skipped : ~should(n)
                /\ r.done => r.requested \cup r.skipped = r.remote

\* C2, witness: a finished loop that skipped the first batch and fetched the
\* second, the highest, again although the directory held it
C2_Witness ==
    /\ pc[1] = "writedate"
    /\ obs[1].refresh.done
    /\ BatchName(1) \in obs[1].refresh.skipped
    /\ BatchName(2) \in obs[1].refresh.requested
    /\ BatchName(2) \in DOMAIN obs[1].refresh.pre
    /\ obs[1].refresh.remote = {BatchName(1), BatchName(2)}

\* C3: a failed listing leaves find_censored_md5ext as an exception, with the
\* batch directory and the persisted date as they were, the date still not the
\* token the lookup read (nor today's, the date not having changed since);
\* handling the exception changes neither; and a lookup that finds the date
\* not today's goes to the listing.
C3_ListingFailureAborts ==
    [][\A p \in Procs :
          /\ (pc[p] = "list" /\ pc'[p] = "except" =>
                 /\ loc'[p].exc \in ListErrors
                 /\ files' = files /\ dirExists' = dirExists /\ lastPull' = lastPull
                 /\ LastPullDate(lastPull') # loc[p].date
                 /\ (loc[p].clock = today' => ~Fresh'))
          /\ (pc[p] = "except" /\ pc'[p] # "except" =>
                 files' = files /\ dirExists' = dirExists /\ lastPull' = lastPull)
          /\ (pc[p] = "find" /\ pc'[p] # "find" /\ ~Fresh => pc'[p] = "list")]_vars

\* C3, witness: the listing's JSON did not parse, on a first use
C3_Witness ==
    /\ pc[1] = "except"
    /\ loc[1].exc = "JSONDecodeError"
    /\ day.listed
    /\ lastPull = <<>>
    /\ ~dirExists

\* C4 as stated: no refresh is aborted by the failure of a batch download
C4_FetchFailureNeverAborts ==
    \A p \in Procs :
        ~(/\ pc[p] = "except"
          /\ loc[p].exc = "ConnectionError"
          /\ obs[p].refresh.requested # {})

\* C5: a batch whose download was answered with a bad status has, for the rest
\* of the lookup, the file (or no file) the refresh found.
C5_BadStatusLeavesFile ==
    \A p \in Procs :
        \A n \in obs[p].refresh.badStatus :
            FileAt(files, n) = FileAt(obs[p].refresh.pre, n)

\* C5, witness: a finished refresh in which a batch the directory held, and
\* which has grown upstream, was answered with a bad status
C5_Witness ==
    /\ obs[1].refresh.done
    /\ \E n \in obs[1].refresh.badStatus :
          /\ n \in DOMAIN obs[1].refresh.pre
          /\ obs[1].refresh.pre[n] # Download(RawUrl(n), published)

\* every text a batch has had upstream
CompleteTexts ==
    {BatchText(i, pub) : pub \in 1..Len(Master), i \in 1..NumBatches(Len(Master))} \ {<<>>}

\* C6 as stated: after an interrupted write the batch's file is as the refresh
\* found it, and every file a scan of the directory reads is a complete batch
\* or holds nothing
C6_NoPartialDataScanned ==
    \A p \in Procs :
        /\ (pc[p] = "except" /\ loc[p].exc = "OSError" =>
               FileAt(files, CurrentBatch(loc[p]))
                   = FileAt(obs[p].refresh.pre, CurrentBatch(loc[p])))
        /\ (pc[p] = "scan" =>
               \A n \in loc[p].toScan \cap DOMAIN files :
                   files[n] \in CompleteTexts \cup {<<>>})

\* C7 as stated: no traversal of decensor_iter ends with an exception
C7_TraversalNeverRaises == \A p \in Procs : obs[p].status # "raised"

\* C8: no lookup is ever under way for a post that has "md5"; such a post is
\* yielded as it is, in the step that pulls it, and that step leaves the batch
\* directory, the persisted date and the day's requests as they were.
C8_ClearPostUntouched ==
    /\ [](\A p \in Procs :
            /\ (pc[p] \notin {"idle", "iter"} => "md5" \notin DOMAIN loc[p].info)
            /\ ("md5" \in DOMAIN obs[p].lastIn => obs[p].lastOut = obs[p].lastIn))
    /\ [][\A p \in Procs :
            (/\ pc[p] = "iter"
             /\ loc'[p].left = loc[p].left - 1
             /\ "md5" \in DOMAIN obs'[p].lastIn)
            => /\ pc'[p] = "iter"
               /\ obs'[p].lastOut = obs'[p].lastIn
               /\ obs'[p].yields = obs[p].yields + 1
               /\ UNCHANGED <<files, dirExists, lastPull, day>>]_vars

\* C8, witness: a post with "md5" was yielded on a mirror never yet created
C8_Witness ==
    /\ "md5" \in DOMAIN obs[1].lastIn
    /\ obs[1].lastOut = obs[1].lastIn
    /\ obs[1].yields = 1
    /\ ~dirExists
    /\ lastPull = <<>>

\* the id texts of the lines of a file (a line without ":" counts whole)
LineIds(text) == {Split(FileLines(text)[k], Colon)[1] : k \in 1..Len(FileLines(text))}

\* no line of any file of the directory has this id text
IdAbsent(fs, idText) == \A n \in DOMAIN fs : idText \notin LineIds(fs[n])

\* every line of every file of the directory splits in two at ":"
WellFormed(fs) ==
    \A n \in DOMAIN fs :
        \A k \in 1..Len(FileLines(fs[n])) : Len(Split(FileLines(fs[n])[k], Colon)) = 2

\* C9: when find_censored_md5ext returns for an id no line carries, it returns
\* None, and the post is yielded as it was passed; on a directory whose lines
\* are all well formed the scan for such an id does return.
C9_AbsentIdNotFound ==
    /\ [](\A p \in Procs :
            (pc[p] = "fill" /\ IdAbsent(files, PostIdText(loc[p].info)))
            => loc[p].result.kind = "None")
    /\ [][\A p \in Procs :
            /\ (/\ pc[p] = "fill" /\ pc'[p] # "fill"
                /\ IdAbsent(files, PostIdText(loc[p].info)))
               => /\ pc'[p] = "iter"
                  /\ obs'[p].lastIn = loc[p].info
                  /\ obs'[p].lastOut = loc[p].info
            /\ (/\ pc[p] = "scan" /\ pc'[p] # "scan"
                /\ WellFormed(files)
                /\ IdAbsent(files, PostIdText(loc[p].info)))
               => pc'[p] = "fill"]_vars

\* C9, witness: None was returned for an id whose text begins the id of a line
C9_Witness ==
    /\ pc[1] = "fill"
    /\ loc[1].result.kind = "None"
    /\ loc[1].info.id \in UnknownIds
    /\ \E n \in DOMAIN files : \E id \in LineIds(files[n]) :
          /\ id # PostIdText(loc[1].info)
          /\ Prefix(id, Len(PostIdText(loc[1].info))) = PostIdText(loc[1].info)

\* the text after the last "." of a URL
UrlExt(url) == Last(Split(url, Dot))

\* the post last yielded was filled in by fill_missing_info
Resolved(p) == "md5" \in DOMAIN obs[p].lastOut /\ "md5" \notin DOMAIN obs[p].lastIn

\* C10 (as amended): the large_file_url of a resolved post at least 850 wide
\* ends in "webm" when the file's extension is "zip" and in "jpg" for every
\* other extension; that of a narrower post ends in the file's extension.
C10_SampleExt ==
    \A p \in Procs :
        Resolved(p) =>
            LET out == obs[p].lastOut
            IN  UrlExt(out.large_file_url) =
                    IF out.image_width < SampleWidth THEN out.file_ext
                    ELSE IF out.file_ext = Text("zip") THEN Text("webm") ELSE Text("jpg")

\* C10, witness: a "png" post 850 wide was given a "jpg" sample
C10_Witness ==
    /\ Resolved(1)
    /\ obs[1].lastOut.file_ext = Text("png")
    /\ obs[1].lastOut.image_width >= SampleWidth
    /\ UrlExt(obs[1].lastOut.large_file_url) = Text("jpg")

\* C10 as stated: the sample's extension is the file's, "webm" for "zip"
C10_SampleExtFollowsFile ==
    \A p \in Procs :
        Resolved(p) =>
            UrlExt(obs[p].lastOut.large_file_url) =
                IF obs[p].lastOut.file_ext = Text("zip") THEN Text("webm")
                ELSE obs[p].lastOut.file_ext

\* a site URL without the "/" it may end in
SiteBase(site) ==
    IF Len(site) > 0 /\ Char(site, Len(site)) = Slash
    THEN SubSeq(site, 1, Len(site) - 1)
    ELSE site

\* the two directory levels taken from an md5
Md5Dirs(md5) == SubSeq(md5, 1, 2) \o Text("/") \o SubSeq(md5, 3, 4) \o Text("/")

\* C11: the file_url of a resolved post is <site>/data/<md5>.<ext> for an id
\* of 2,800,001 or more, and <md5[0:2]>/<md5[2:4]>/<md5>.<ext> on raikou2 for
\* an id from 850,001 to 2,800,000 and on raikou1 for an id up to 850,000; its
\* preview_file_url is on raikou4, under the same two levels, and ends in .jpg.
C11_UrlByIdRange ==
    \A p \in Procs :
        Resolved(p) =>
            LET out  == obs[p].lastOut
                name == out.md5 \o Text(".") \o out.file_ext
            IN  /\ out.file_url =
                       IF out.id >= 2800001
                       THEN SiteBase(loc[p].site) \o Text("/data/") \o name
                       ELSE IF out.id >= 850001
                       THEN Text("https://raikou2.donmai.us/") \o Md5Dirs(out.md5) \o name
                       ELSE Text("https://raikou1.donmai.us/") \o Md5Dirs(out.md5) \o name
                /\ out.preview_file_url =
                       Text("https://raikou4.donmai.us/preview/") \o Md5Dirs(out.md5)
                           \o out.md5 \o Text(".jpg")

\* C11, witness: post 2,800,000, a png, was resolved to raikou2 for a caller
\* whose site URL ends in "/"
C11_Witness ==
    /\ Resolved(1)
    /\ obs[1].lastOut.id = 2800000
    /\ obs[1].lastOut.file_ext = Text("png")
    /\ Prefix(obs[1].lastOut.file_url, 26) = Text("https://raikou2.donmai.us/")
    /\ loc[1].site = DEFAULT_SITE \o Text("/")

\* where the samples of a post's range are kept
SampleDir(id, md5, site) ==
    IF id >= 2800001 THEN SiteBase(site) \o Text("/data/sample/")
    ELSE IF id >= 850001 THEN Text("https://raikou2.donmai.us/sample/") \o Md5Dirs(md5)
    ELSE Text("https://raikou1.donmai.us/sample/") \o Md5Dirs(md5)

\* C12: the large_file_url of a resolved post less than 850 wide is its
\* file_url; that of a post 850 wide or more is the sample URL of its range,
\* sample-<md5> under the sample directory, which is not its file_url.
C12_NarrowUsesFileUrl ==
    \A p \in Procs :
        Resolved(p) =>
            LET out == obs[p].lastOut
            IN  IF out.image_width < 850
                THEN out.large_file_url = out.file_url
                ELSE /\ out.large_file_url =
                            SampleDir(out.id, out.md5, loc[p].site) \o Text("sample-")
                                \o out.md5 \o Text(".") \o UrlExt(out.large_file_url)
                     /\ out.large_file_url # out.file_url

\* C12, witness: a zip 849 wide of the newest range was resolved with its
\* file_url as large_file_url
C12_Witness ==
    /\ Resolved(1)
    /\ obs[1].lastOut.image_width = 849
    /\ obs[1].lastOut.id = 2800001
    /\ obs[1].lastOut.file_ext = Text("zip")
    /\ obs[1].lastOut.large_file_url = obs[1].lastOut.file_url

\* the fields fill_missing_info sets
FilledFields == {"file_ext", "md5", "file_url", "large_file_url", "preview_file_url"}

\* C13: throughout a call of decensor the caller's record is the record that
\* was passed, and it still is when the call returns; the record returned for a
\* resolved post has the caller's fields and the five filled ones, and every
\* other field with the caller's value.
C13_InputNotMutated ==
    /\ [](\A p \in Procs :
            /\ (pc[p] \notin {"idle", "iter"} => loc[p].info = obs[p].lastIn)
            /\ (Resolved(p) =>
                  LET in  == obs[p].lastIn
                      out == obs[p].lastOut
                  IN  /\ DOMAIN out = DOMAIN in \cup FilledFields
                      /\ \A f \in DOMAIN in \ FilledFields : out[f] = in[f]))
    /\ [][\A p \in Procs :
            (pc[p] \notin {"idle", "iter"} /\ pc'[p] = "iter")
            => obs'[p].lastIn = obs[p].lastIn]_vars

\* C13, witness: a post passed with a file_ext of its own was resolved; the
\* caller's record is as passed and the record returned has its rating
C13_Witness ==
    /\ Resolved(1)
    /\ obs[1].lastIn \in ExtPosts
    /\ obs[1].lastOut.rating = Text("s")
    /\ obs[1].lastOut.md5 # <<>>

\* the (md5, ext) pairs of the published records with an id
RecordPairs(idText) ==
    { <<md5, ext>> \in
        { <<Sub(Master[i], Len(idText) + 2, Len(Master[i]) - 4),
            Sub(Master[i], Len(Master[i]) - 2, Len(Master[i]))>> :
          i \in {j \in 1..Len(Master) : Prefix(Master[j], Len(idText) + 1) = idText \o Text(":")} } :
        TRUE }

\* C14 as stated: while another process refreshes, a lookup reads whole
\* batches only: what find_censored_md5ext returns for a post is None or the
\* md5 and extension of a record with the post's id, and no lookup is ended by
\* the ValueError of a cut line
C14_ConcurrentScanReadsWholeBatches ==
    \A p \in DOMAIN pc :
        /\ (pc[p] = "fill" /\ loc[p].result.kind = "list"
              => loc[p].result.val \in RecordPairs(PostIdText(loc[p].info)))
        /\ ~(pc[p] = "except" /\ loc[p].exc = "ValueError")

\* the exceptions that come out of update_batches
RefreshErrors == ListErrors \cup {"ConnectionError", "OSError", "FileExistsError"}

\* C15 as stated: of two processes refreshing at once, neither refresh is
\* ended by an exception
C15_ConcurrentRefreshesComplete ==
    \A p \in DOMAIN pc :
        ~(pc[p] = "except" /\ loc[p].exc \in RefreshErrors)

\* C16 as stated: a lookup that finds a sync state written on another date
\* than today's goes to the refresh
C16_OtherDateRefreshes ==
    [][\A p \in Procs :
          (/\ pc[p] = "find" /\ pc'[p] # "find"
           /\ lastPull # <<>>
           /\ lastPull[2] # today)
          => pc'[p] = "list"]_vars

\* a line of the shape id:md5.ext: one ":", and one "." after it
WellFormedLine(line) ==
    /\ Cardinality(Positions(line, Colon)) = 1
    /\ Cardinality(Positions(line, Dot)) = 1
    /\ \A c \in Positions(line, Colon) : \A d \in Positions(line, Dot) : c < d

\* every line of every file of the directory has that shape
WellFormedStore(fs) ==
    \A n \in DOMAIN fs :
        \A k \in 1..Len(FileLines(fs[n])) : WellFormedLine(FileLines(fs[n])[k])

\* the text of a line before its first ":"
LineId(line) ==
    LET c == CHOOSE i \in Positions(line, Colon) : \A j \in Positions(line, Colon) : i <= j
    IN  Sub(line, 1, c - 1)

\* the md5 and the extension of a line: the text between the ":" and the last
\* ".", and the text after it up to the white space the line ends in
LinePair(line) ==
    LET c    == CHOOSE i \in Positions(line, Colon) : \A j \in Positions(line, Colon) : i <= j
        d    == CHOOSE i \in Positions(line, Dot) : \A j \in Positions(line, Dot) : j <= i
        last == CHOOSE e \in d..Len(line) :
                    /\ \A j \in (e + 1)..Len(line) : IsSpace(Char(line, j))
                    /\ (e > d => ~IsSpace(Char(line, e)))
    IN  << Sub(line, c + 1, d - 1), Sub(line, d + 1, last) >>

\* the first line of a text that carries the id
FirstMatch(text, idText) ==
    LET lines == FileLines(text)
        k == CHOOSE i \in 1..Len(lines) :
                 /\ LineId(lines[i]) = idText
                 /\ \A j \in 1..(i - 1) : LineId(lines[j]) # idText
    IN  lines[k]

\* the files of the directory with a line that carries the id
Holders(fs, idText) ==
    { n \in DOMAIN fs :
        \E k \in 1..Len(FileLines(fs[n])) : LineId(FileLines(fs[n])[k]) = idText }

\* C17: on a directory of well-formed lines, no file the scan has passed
\* holds the id; find_censored_md5ext returns a list exactly when some file
\* holds the id; the list is the md5 and the extension of the first line with
\* the id in a file the scan had not passed, and the scan ends there.
C17_FirstMatchReturned ==
    /\ [](\A p \in Procs :
            /\ (pc[p] = "scan" /\ WellFormedStore(files) =>
                  Holders(files, PostIdText(loc[p].info)) \subseteq loc[p].toScan)
            /\ (pc[p] = "fill" /\ WellFormedStore(files) =>
                  /\ (loc[p].result.kind = "list"
                        <=> Holders(files, PostIdText(loc[p].info)) # {})
                  /\ (loc[p].result.kind = "list" =>
                        \E n \in Holders(files, PostIdText(loc[p].info)) :
                            loc[p].result.val =
                                LinePair(FirstMatch(files[n], PostIdText(loc[p].info))))))
    /\ [][\A p \in Procs :
            (/\ pc[p] = "scan" /\ pc'[p] = "fill"
             /\ WellFormedStore(files)
             /\ loc'[p].result.kind = "list")
            => /\ \E n \in loc[p].toScan \cap Holders(files, PostIdText(loc[p].info)) :
                     loc'[p].result.val =
                         LinePair(FirstMatch(files[n], PostIdText(loc[p].info)))
               /\ loc'[p].toScan = {}]_vars

\* C17, witness: the id is on a line that ends in a line end and, with another
\* extension, in a second file; the pair of the first was returned
C17_Witness ==
    /\ pc[1] = "fill"
    /\ WellFormedStore(files)
    /\ loc[1].result.kind = "list"
    /\ loc[1].result.val[2] = Text("jpg")
    /\ \E n, o \in Holders(files, PostIdText(loc[1].info)) :
          /\ LinePair(FirstMatch(files[n], PostIdText(loc[1].info))) = loc[1].result.val
          /\ IsSpace(Char(FirstMatch(files[n], PostIdText(loc[1].info)),
                          Len(FirstMatch(files[n], PostIdText(loc[1].info)))))
          /\ LinePair(FirstMatch(files[o], PostIdText(loc[1].info))) # loc[1].result.val

\* C18 as stated: find_censored_md5ext does not return from a matching line
\* whose md5.ext part has no ".": whatever list it returns is an md5 and an
\* extension
C18_MalformedMatchFailsInFind ==
    \A p \in Procs :
        (pc[p] = "fill" /\ loc[p].result.kind = "list") => Len(loc[p].result.val) = 2

\* C19 as stated: when a refresh whose listing and downloads were all answered
\* with success has ended its loop, every batch the upstream repository held
\* when the refresh listed it is in the batch directory, with at least the
\* records it held then
C19_MirrorCompleteAfterRefresh ==
    \A p \in Procs :
        (/\ pc[p] = "writedate"
         /\ obs[p].refresh.done
         /\ obs[p].refresh.badStatus = {})
        => \A i \in 1..NumBatches(obs[p].refresh.pub) :
              /\ BatchName(i) \in DOMAIN files
              /\ Prefix(files[BatchName(i)], Len(BatchText(i, obs[p].refresh.pub)))
                    = BatchText(i, obs[p].refresh.pub)

\* the batches of a directory: its files but the temporary ones, whose names
\* begin with "."
Batches(fs) == {n \in DOMAIN fs : Char(n, 1) # Dot}

\* C20: every step keeps each batch of the batch directory, and keeps the
\* directory; a batch's text changes only in the step that renames over it
\* the temporary file of a download of that batch, and becomes the text that
\* was downloaded, which is a text that batch has had upstream.
C20_BatchesNeverRemoved ==
    [][/\ dirExists => dirExists'
       /\ \A n \in Batches(files) :
            /\ n \in Batches(files')
            /\ files'[n] # files[n] =>
                  \E p \in DOMAIN pc :
                      /\ pc[p] = "close"
                      /\ CurrentBatch(loc[p]) = n
                      /\ files'[n] = loc[p].answer
                      /\ \E pub \in 1..published :
                            /\ RawUrl(n) \in {RawUrl(BatchName(i)) : i \in 1..NumBatches(pub)}
                            /\ files'[n] = Download(RawUrl(n), pub)]_vars

\* C20, witness: in a refresh in which one download came back with a bad
\* status, a batch the directory held has been overwritten with a longer text
C20_Witness ==
    /\ pc[1] = "loop"
    /\ obs[1].refresh.badStatus # {}
    /\ \E n \in Batches(obs[1].refresh.pre) \cap Batches(files) :
          Len(files[n]) > Len(obs[1].refresh.pre[n])

====
